---- MODULE Spec2Model ----
(***************************************************************************)
(* Model of biotite's MDL connection table codec                           *)
(* (src/biotite/structure/io/ctab.py), of its chain utilities              *)
(* (src/biotite/structure/chains.py) and of the optimal pairwise alignment *)
(* that doc/examples/scripts/sequence/genome_search.py calls.              *)
(*                                                                         *)
(* Text is modelled as it is in Python: a line is a sequence of one        *)
(* character strings, formatted by the f-string rules of the writer and    *)
(* sliced by columns, stripped and converted by int()/float()/split() as   *)
(* the reader does.  Coordinates and the element symbol of an atom are     *)
(* held at 0.0 and "C": they take part in the column layout but no         *)
(* property below reads their value.                                       *)
(***************************************************************************)
EXTENDS Integers, Sequences, FiniteSets, TLC

VARIABLES
    pc,          \* position of the scenario that is running
    src_lines,   \* ctab: the text handed to read_structure_from_ctab first
    src_atoms,   \* ctab: the structure handed to write_structure_to_ctab first
    atoms,       \* ctab: the structure returned by the last successful read
    out_lines,   \* ctab: the lines returned by the last successful write
    error,       \* ctab: the exception raised by the last call, or "none"
    warnings,    \* ctab: the warnings issued by the last read, in order
    array,       \* chains: the chain_id annotation of the atom array
    starts,      \* chains: chain_iter's local 'starts'
    iter_i,      \* chains: chain_iter's loop variable i
    yielded,     \* chains: the subarrays chain_iter has yielded so far
    chain_count, \* chains: the value get_chain_count returned
    aln_in,      \* align: the arguments of the call
    aln_out      \* align: what the call returned

vars == <<pc, src_lines, src_atoms, atoms, out_lines, error, warnings,
          array, starts, iter_i, yielded, chain_count, aln_in, aln_out>>

ctabVars == <<src_lines, src_atoms, atoms, out_lines, error, warnings>>
chainVars == <<array, starts, iter_i, yielded, chain_count>>
alignVars == <<aln_in, aln_out>>

Min(a, b) == IF a < b THEN a ELSE b
Max(a, b) == IF a > b THEN a ELSE b

(***************************************************************************)
(* Python text primitives                                                  *)
(***************************************************************************)
Digits == <<"0", "1", "2", "3", "4", "5", "6", "7", "8", "9">>

IsDigit(c) == \E d \in 1..10 : Digits[d] = c

DigitVal(c) == (CHOOSE d \in 1..10 : Digits[d] = c) - 1

Spaces(k) == [i \in 1..k |-> " "]

RECURSIVE Rep(_, _)
Rep(s, k) == IF k <= 0 THEN <<>> ELSE s \o Rep(s, k - 1)

\* s[a:b] of Python for 0 <= a <= b: the bounds are clamped to the length.
Slice(s, a, b) == SubSeq(s, a + 1, Min(b, Len(s)))

RECURSIVE DecStr(_)
DecStr(n) ==
    IF n < 10 THEN <<Digits[n + 1]>>
    ELSE DecStr(n \div 10) \o <<Digits[(n % 10) + 1]>>

\* f"{n:>3d}": right-justified in at least three columns, never truncated.
Fmt3d(n) ==
    LET body == IF n < 0 THEN <<"-">> \o DecStr(-n) ELSE DecStr(n)
    IN  IF Len(body) >= 3 THEN body ELSE Spaces(3 - Len(body)) \o body

RECURSIVE LStrip(_)
LStrip(s) == IF s # <<>> /\ Head(s) = " " THEN LStrip(Tail(s)) ELSE s

RECURSIVE RStrip(_)
RStrip(s) ==
    IF s # <<>> /\ s[Len(s)] = " " THEN RStrip(SubSeq(s, 1, Len(s) - 1)) ELSE s

\* str.strip()
Strip(s) == RStrip(LStrip(s))

Unsigned(t) == IF t # <<>> /\ t[1] \in {"+", "-"} THEN Tail(t) ELSE t

RECURSIVE DigitsVal(_)
DigitsVal(t) ==
    IF t = <<>> THEN 0
    ELSE 10 * DigitsVal(SubSeq(t, 1, Len(t) - 1)) + DigitVal(t[Len(t)])

\* Whether int(s) returns: surrounding blanks, an optional sign, digits.
IntOk(s) ==
    LET u == Unsigned(Strip(s))
    IN  u # <<>> /\ \A i \in 1..Len(u) : IsDigit(u[i])

\* int(s) where IntOk(s).
IntVal(s) ==
    LET t == Strip(s)
        v == DigitsVal(Unsigned(t))
    IN  IF t[1] = "-" THEN -v ELSE v

\* Whether float(s) returns, for decimal notation: surrounding blanks, an
\* optional sign, digits with at most one point and at least one digit.
FloatOk(s) ==
    LET u == Unsigned(Strip(s))
    IN  /\ u # <<>>
        /\ \A i \in 1..Len(u) : IsDigit(u[i]) \/ u[i] = "."
        /\ Cardinality({i \in 1..Len(u) : u[i] = "."}) <= 1
        /\ \E i \in 1..Len(u) : IsDigit(u[i])

\* str.split(): the maximal runs of non-blank characters.
RECURSIVE Split(_)
Split(s) ==
    LET t == LStrip(s)
    IN  IF t = <<>> THEN <<>>
        ELSE LET stop == IF \E i \in 1..Len(t) : t[i] = " "
                         THEN (CHOOSE i \in 1..Len(t) :
                                  t[i] = " " /\ \A k \in 1..(i - 1) : t[k] # " ")
                         ELSE Len(t) + 1
             IN  <<SubSeq(t, 1, stop - 1)>> \o Split(SubSeq(t, stop, Len(t)))

(***************************************************************************)
(* ctab.py: the enumerations                                               *)
(***************************************************************************)
\* The members of BondType the codec can meet: the four the enumeration
\* names and two it does not.
BondTypes == {"ANY", "SINGLE", "DOUBLE", "TRIPLE", "QUADRUPLE", "AROMATIC"}

\* A Python dict literal: its items in insertion order.
BOND_TYPE_MAPPING ==
    << <<1, "SINGLE">>, <<2, "DOUBLE">>, <<3, "TRIPLE">>,
       <<6, "SINGLE">>, <<7, "DOUBLE">>, <<8, "ANY">> >>

CHARGE_MAPPING ==
    << <<0, 0>>, <<1, 3>>, <<2, 2>>, <<3, 1>>, <<5, -1>>, <<6, -2>>, <<7, -3>> >>

\* {val: key for key, val in d.items()}: the items are stored in order, and
\* an item stored later under the same key replaces the earlier one.
DictInvert(items) == [i \in 1..Len(items) |-> <<items[i][2], items[i][1]>>]

HasKey(items, key) == \E i \in 1..Len(items) : items[i][1] = key

\* d.get(key, default): the value stored last under key.
DictGet(items, key, default) ==
    IF HasKey(items, key)
    THEN LET last == CHOOSE i \in 1..Len(items) :
                        /\ items[i][1] = key
                        /\ \A k \in (i + 1)..Len(items) : items[k][1] # key
         IN  items[last][2]
    ELSE default

BOND_TYPE_MAPPING_REV == DictInvert(BOND_TYPE_MAPPING)

CHARGE_MAPPING_REV == DictInvert(CHARGE_MAPPING)

(***************************************************************************)
(* ctab.py: the structure and the line layout                              *)
(***************************************************************************)
\* An AtomArray (stack = FALSE) or AtomArrayStack (stack = TRUE) of n atoms:
\* the optional charge annotation and the optional BondList, whose rows
\* are <<i, j, bond type>> with 0-based atom indices.
Structure(stack, n, has_charge, charge, has_bonds, bonds) ==
    [stack |-> stack, n |-> n, has_charge |-> has_charge, charge |-> charge,
     has_bonds |-> has_bonds, bonds |-> bonds]

EmptyStructure == Structure(FALSE, 0, FALSE, <<>>, FALSE, <<>>)

Zero3 == <<" ", " ", "0">>

\* f"{0.0:>10.5f}"
CoordText == <<" ", " ", " ", "0", ".", "0", "0", "0", "0", "0">>

\* f" {element:>3}" for the element "C"
ElementText == <<" ", " ", " ", "C">>

TerminatorLine == <<"M", " ", " ", "E", "N", "D">>

\* The atom line write_structure_to_ctab builds around a charge code.
AtomLineText(code) ==
    CoordText \o CoordText \o CoordText \o ElementText
        \o <<" ", " ">> \o Fmt3d(code) \o Rep(Zero3, 10)

\* The bond line write_structure_to_ctab builds from 1-based indices and a
\* bond-type code.
BondLineText(i, j, code) ==
    Fmt3d(i) \o Fmt3d(j) \o Fmt3d(code) \o Rep(Zero3, 4)

CountsLineText(n, b) ==
    Fmt3d(n) \o Fmt3d(b) \o Spaces(3) \o Rep(Zero3, 5)
        \o <<" ", " ", "1", " ", "V", "2", "0", "0", "0">>

(***************************************************************************)
(* ctab.py: _get_counts and read_structure_from_ctab                       *)
(***************************************************************************)
\* _get_counts: [err, n_atoms, n_bonds].
GetCounts(counts_line) ==
    LET elements == Split(counts_line)
    IN  IF Len(elements) < 1 THEN [err |-> "IndexError", n_atoms |-> 0, n_bonds |-> 0]
        ELSE IF ~IntOk(elements[1])
             THEN [err |-> "ValueError", n_atoms |-> 0, n_bonds |-> 0]
        ELSE IF Len(elements) < 2
             THEN [err |-> "IndexError", n_atoms |-> 0, n_bonds |-> 0]
        ELSE IF ~IntOk(elements[2])
             THEN [err |-> "ValueError", n_atoms |-> 0, n_bonds |-> 0]
        ELSE [err |-> "none", n_atoms |-> IntVal(elements[1]),
              n_bonds |-> IntVal(elements[2])]

\* AtomLineOk, had the loop indexed the enumeration (CHARGE_MAPPING[code]):
\* a charge code that is not of it raises KeyError.
AtomLineOkStrict(line) ==
    /\ FloatOk(Slice(line, 0, 10))
    /\ FloatOk(Slice(line, 10, 20))
    /\ FloatOk(Slice(line, 20, 30))
    /\ IntOk(Slice(line, 36, 39))
    /\ HasKey(CHARGE_MAPPING, IntVal(Slice(line, 36, 39)))

\* One pass of the atom loop raises nothing.
AtomLineOk(line) ==
    /\ FloatOk(Slice(line, 0, 10))
    /\ FloatOk(Slice(line, 10, 20))
    /\ FloatOk(Slice(line, 20, 30))
    /\ IntOk(Slice(line, 36, 39))

\* The charge the atom loop stores for a line.
AtomCharge(line) ==
    LET code == IntVal(Slice(line, 36, 39))
    IN  IF HasKey(CHARGE_MAPPING, code) THEN DictGet(CHARGE_MAPPING, code, 0) ELSE 0

\* The warnings one pass of the atom loop issues.
AtomWarnings(line) ==
    IF ~HasKey(CHARGE_MAPPING, IntVal(Slice(line, 36, 39)))
    THEN << <<"charge", IntVal(Slice(line, 36, 39))>> >>
    ELSE <<>>

\* One pass of the bond loop raises nothing.
BondLineOk(line) ==
    /\ IntOk(Slice(line, 6, 9))
    /\ IntOk(Slice(line, 0, 3))
    /\ IntOk(Slice(line, 3, 6))

BondLineType(line) == DictGet(BOND_TYPE_MAPPING, IntVal(Slice(line, 6, 9)), "ANY")

\* The warnings one pass of the bond loop issues.
BondWarnings(line) ==
    IF BondLineType(line) = "ANY"
    THEN << <<"bond", IntVal(Slice(line, 6, 9))>> >>
    ELSE <<>>

\* The row of the bond array one pass of the bond loop stores.  The array
\* is of uint32; every index of the texts read here is at least 1, so that
\* the stored index - 1 is exact.
BondRow(line) ==
    << IntVal(Slice(line, 0, 3)) - 1,
       IntVal(Slice(line, 3, 6)) - 1,
       BondLineType(line) >>

RECURSIVE Concat(_)
Concat(ss) == IF ss = <<>> THEN <<>> ELSE Head(ss) \o Concat(Tail(ss))

\* read_structure_from_ctab: [err, atoms, warns].  A call that raises
\* returns nothing, and its warnings are of no account.
ReadStructureFromCtab(ctab_lines) ==
    LET failed(e) == [err |-> e, atoms |-> EmptyStructure, warns |-> <<>>]
    IN
    IF ctab_lines = <<>> THEN failed("IndexError")
    ELSE
    LET counts == GetCounts(ctab_lines[1])
    IN
    IF counts.err # "none" THEN failed(counts.err)
    ELSE IF counts.n_atoms < 0 \/ counts.n_bonds < 0 THEN failed("ValueError")
    ELSE
    LET n_atoms == counts.n_atoms
        n_bonds == counts.n_bonds
        atom_lines == Slice(ctab_lines, 1, 1 + n_atoms)
        bond_lines == Slice(ctab_lines, 1 + n_atoms, 1 + n_atoms + n_bonds)
    IN
    IF \E i \in 1..Len(atom_lines) : ~AtomLineOk(atom_lines[i])
    THEN failed("ValueError")
    ELSE IF \E i \in 1..Len(bond_lines) : ~BondLineOk(bond_lines[i])
    THEN failed("ValueError")
    ELSE
    [err |-> "none",
     atoms |-> Structure(FALSE, n_atoms, TRUE,
                  [i \in 1..n_atoms |->
                      IF i <= Len(atom_lines) THEN AtomCharge(atom_lines[i]) ELSE 0],
                  TRUE,
                  [i \in 1..n_bonds |->
                      IF i <= Len(bond_lines) THEN BondRow(bond_lines[i])
                      ELSE <<0, 0, "ANY">>]),
     warns |-> Concat([i \in 1..Len(atom_lines) |-> AtomWarnings(atom_lines[i])])
               \o Concat([i \in 1..Len(bond_lines) |-> BondWarnings(bond_lines[i])])]

(***************************************************************************)
(* ctab.py: write_structure_to_ctab                                        *)
(***************************************************************************)
\* ChargeCode, had the writer looked the charge up in the reader's
\* enumeration.
ChargeCodeForward(charge) == DictGet(CHARGE_MAPPING, charge, 0)

\* The charge code an atom line carries.
ChargeCode(charge) == DictGet(CHARGE_MAPPING_REV, charge, 0)

\* The bond-type code a bond line carries.
BondTypeCode(bond_type) == DictGet(BOND_TYPE_MAPPING_REV, bond_type, 0)

\* WriteStructureToCtab without the check of atoms.bonds: an absent bond
\* list is written as an empty one.
WriteStructureToCtabUnchecked(a) ==
    IF a.stack THEN [err |-> "TypeError", lines |-> <<>>]
    ELSE
    LET charge == IF a.has_charge THEN a.charge ELSE [i \in 1..a.n |-> 0]
        atom_lines == [i \in 1..a.n |-> AtomLineText(DictGet(CHARGE_MAPPING_REV, charge[i], 0))]
        bond_lines == [k \in 1..Len(a.bonds) |->
                          BondLineText(a.bonds[k][1] + 1, a.bonds[k][2] + 1,
                                       DictGet(BOND_TYPE_MAPPING_REV, a.bonds[k][3], 0))]
        counts_line == CountsLineText(Len(atom_lines), Len(bond_lines))
    IN  [err |-> "none",
         lines |-> <<counts_line>> \o atom_lines \o bond_lines \o <<TerminatorLine>>]

\* write_structure_to_ctab: [err, lines].
WriteStructureToCtab(a) ==
    IF a.stack THEN [err |-> "TypeError", lines |-> <<>>]
    ELSE IF ~a.has_bonds THEN [err |-> "BadStructureError", lines |-> <<>>]
    ELSE
    LET charge == IF a.has_charge THEN a.charge ELSE [i \in 1..a.n |-> 0]
        atom_lines == [i \in 1..a.n |-> AtomLineText(ChargeCode(charge[i]))]
        bond_lines == [k \in 1..Len(a.bonds) |->
                          BondLineText(a.bonds[k][1] + 1, a.bonds[k][2] + 1,
                                       BondTypeCode(a.bonds[k][3]))]
        counts_line == CountsLineText(Len(atom_lines), Len(bond_lines))
    IN  [err |-> "none",
         lines |-> <<counts_line>> \o atom_lines \o bond_lines \o <<TerminatorLine>>]

(***************************************************************************)
(* The inputs of the codec                                                 *)
(***************************************************************************)
MaxAtoms == 2
MaxBonds == 2

\* The structure with this many bonds in a row (an unbranched chain of one
\* more atom) is among the inputs: the counts fields are three columns wide.
LongChainBonds == {99, 100}

SeqsUpTo(S, n) == UNION {[1..k -> S] : k \in 0..n}

\* Charge codes of an atom line: the enumeration's 0,1,2,3,5,6,7, the
\* reserved 4 and the unknown 8.
InChargeCodes == 0..8

\* Bond-type codes of a bond line: the enumeration's 1,2,3,6,7,8 and the
\* unknown 0,4,5,9.
InBondCodes == 0..9

\* Formal charges of an atom: the enumeration's -3..3 and -4, 4 beyond it.
InCharges == -4..4

\* A text: counts line, atom lines, bond lines <<i, j, code>> (1-based),
\* and the terminator if the text has one.
TextOf(n_decl, b_decl, codes, bonds, terminated) ==
    <<CountsLineText(n_decl, b_decl)>>
        \o [i \in 1..Len(codes) |-> AtomLineText(codes[i])]
        \o [k \in 1..Len(bonds) |-> BondLineText(bonds[k][1], bonds[k][2], bonds[k][3])]
        \o (IF terminated THEN <<TerminatorLine>> ELSE <<>>)

\* Texts whose counts line declares the lines that follow: every list of
\* charge codes with no bond or one, and two atoms with every list of bonds.
WellFormedTexts ==
    {TextOf(Len(c), 0, c, <<>>, TRUE) : c \in SeqsUpTo(InChargeCodes, MaxAtoms)}
    \cup {TextOf(Len(c), 1, c, << <<1, 2, 1>> >>, TRUE) :
            c \in {x \in SeqsUpTo(InChargeCodes, MaxAtoms) : Len(x) >= 2}}
    \cup {TextOf(2, Len(b), <<0, 0>>, b, TRUE) :
            b \in SeqsUpTo({<<p[1], p[2], c>> : p \in {<<1, 2>>, <<2, 1>>},
                                             c \in InBondCodes}, MaxBonds)}

\* Texts whose counts line declares one line more or less than follow, with
\* and without the terminator.  A text with a bond line declares the two
\* atoms the bond joins.
MiscountedTexts ==
    {TextOf(n, b, [i \in 1..k |-> 0], [i \in 1..j |-> <<1, 2, 1>>], t) :
        <<n, b, k, j, t>> \in
            {x \in (0..(MaxAtoms + 1)) \X (0..(MaxBonds + 1)) \X (0..MaxAtoms)
                    \X (0..MaxBonds) \X BOOLEAN :
                /\ x[1] \in {x[3] - 1, x[3], x[3] + 1}
                /\ x[2] \in {x[4] - 1, x[4], x[4] + 1}
                /\ (x[4] > 0 => x[1] >= 2)}}

\* Texts whose counts line is not two integers, and the text of no line.
BadCountsTexts ==
    { <<>>,
      << <<>>, TerminatorLine >>,
      << Fmt3d(1), AtomLineText(0), TerminatorLine >>,
      << <<" ", " ", "x", " ", " ", "0">>, AtomLineText(0), TerminatorLine >>,
      << <<" ", " ", "1", " ", " ", "x">>, AtomLineText(0), TerminatorLine >> }

TextInputs == WellFormedTexts \cup MiscountedTexts \cup BadCountsTexts

\* Single-frame structures with a bond list: every list of charges with no
\* bond or one, two atoms with every list of bonds, and no charge annotation.
BondedStructures ==
    {Structure(FALSE, Len(c), TRUE, c, TRUE, <<>>) : c \in SeqsUpTo(InCharges, MaxAtoms)}
    \cup {Structure(FALSE, Len(c), TRUE, c, TRUE, << <<0, 1, "SINGLE">> >>) :
            c \in {x \in SeqsUpTo(InCharges, MaxAtoms) : Len(x) >= 2}}
    \cup {Structure(FALSE, 2, TRUE, <<0, 0>>, TRUE, b) :
            b \in SeqsUpTo({<<p[1], p[2], t>> : p \in {<<0, 1>>, <<1, 0>>},
                                             t \in BondTypes}, MaxBonds)}
    \cup {Structure(FALSE, n, FALSE, <<>>, TRUE, <<>>) : n \in 0..MaxAtoms}
    \cup {Structure(FALSE, 2, FALSE, <<>>, TRUE, << <<0, 1, t>> >>) : t \in BondTypes}

\* An unbranched chain: atom k-1 bonded to atom k.
LongChains ==
    {Structure(FALSE, b + 1, TRUE, [i \in 1..(b + 1) |-> 0], TRUE,
               [k \in 1..b |-> <<k - 1, k, "SINGLE">>]) : b \in LongChainBonds}

\* Stacks, and arrays without a bond list.
RejectedStructures ==
    {Structure(s, n, c, [i \in 1..(IF c THEN n ELSE 0) |-> 0], h,
               IF h /\ n >= 2 THEN << <<0, 1, "SINGLE">> >> ELSE <<>>) :
        <<s, n, c, h>> \in
            {x \in BOOLEAN \X (0..MaxAtoms) \X BOOLEAN \X BOOLEAN : x[1] \/ ~x[4]}}

StructureInputs == BondedStructures \cup LongChains \cup RejectedStructures

(***************************************************************************)
(* The codec's scenarios: a text is read and the result written, or a      *)
(* structure is written and the result read                                *)
(***************************************************************************)
IdleChains ==
    /\ array = <<>> /\ starts = <<>> /\ iter_i = 0 /\ yielded = <<>>
    /\ chain_count = 0

IdleAlign == aln_in = <<>> /\ aln_out = <<>>

IdleCtab ==
    /\ src_lines = <<>> /\ src_atoms = EmptyStructure /\ atoms = EmptyStructure
    /\ out_lines = <<>> /\ error = "none" /\ warnings = <<>>

Init ==
    /\ \/ pc = "text" /\ src_lines \in TextInputs /\ src_atoms = EmptyStructure
       \/ pc = "structure" /\ src_atoms \in StructureInputs /\ src_lines = <<>>
    /\ atoms = EmptyStructure
    /\ out_lines = <<>>
    /\ error = "none"
    /\ warnings = <<>>
    /\ IdleChains
    /\ IdleAlign

\* read_structure_from_ctab(src_lines)
ReadSource ==
    /\ pc = "text"
    /\ LET r == ReadStructureFromCtab(src_lines)
       IN  /\ error' = r.err
           /\ atoms' = r.atoms
           /\ warnings' = r.warns
           /\ pc' = IF r.err = "none" THEN "parsed" ELSE "read_failed"
    /\ UNCHANGED <<src_lines, src_atoms, out_lines, chainVars, alignVars>>

\* write_structure_to_ctab(atoms) of the structure just read
WriteParsed ==
    /\ pc = "parsed"
    /\ LET w == WriteStructureToCtab(atoms)
       IN  /\ error' = w.err
           /\ out_lines' = w.lines
           /\ pc' = IF w.err = "none" THEN "rewritten" ELSE "rewrite_failed"
    /\ UNCHANGED <<src_lines, src_atoms, atoms, warnings, chainVars, alignVars>>

\* write_structure_to_ctab(src_atoms)
WriteSource ==
    /\ pc = "structure"
    /\ LET w == WriteStructureToCtab(src_atoms)
       IN  /\ error' = w.err
           /\ out_lines' = w.lines
           /\ pc' = IF w.err = "none" THEN "written" ELSE "write_failed"
    /\ UNCHANGED <<src_lines, src_atoms, atoms, warnings, chainVars, alignVars>>

\* read_structure_from_ctab(out_lines) of the lines just written
ReadWritten ==
    /\ pc = "written"
    /\ LET r == ReadStructureFromCtab(out_lines)
       IN  /\ error' = r.err
           /\ atoms' = r.atoms
           /\ warnings' = r.warns
           /\ pc' = IF r.err = "none" THEN "reread" ELSE "reread_failed"
    /\ UNCHANGED <<src_lines, src_atoms, out_lines, chainVars, alignVars>>

Next == ReadSource \/ WriteParsed \/ WriteSource \/ ReadWritten

Spec == Init /\ [][Next]_vars

(***************************************************************************)
(* Properties of the codec                                                 *)
(***************************************************************************)
EnumChargeCodes == {0, 1, 2, 3, 5, 6, 7}
EnumBondCodes == {1, 2, 3, 6, 7, 8}
EnumCharges == -3..3
EnumBondTypes == {"SINGLE", "DOUBLE", "TRIPLE", "ANY"}

\* The lines of a text after the counts line that are records.
RecordLines(lines) ==
    Cardinality({i \in 2..Len(lines) : lines[i] # TerminatorLine})

ChargeField(line) == Slice(line, 36, 39)
BondFields(line) == <<Slice(line, 0, 3), Slice(line, 3, 6), Slice(line, 6, 9)>>
CountFields(line) == <<Slice(line, 0, 3), Slice(line, 3, 6)>>

\* A line that has the columns of an atom line: three decimal coordinates
\* and an integer charge code.
IsAtomLine(line) ==
    /\ \A c \in 0..2 : FloatOk(Slice(line, 10 * c, 10 * c + 10))
    /\ IntOk(ChargeField(line))

\* A line that has the columns of a bond line: three integers.
IsBondLine(line) == \A f \in 1..3 : IntOk(BondFields(line)[f])

\* The counts line holds two integer fields of three columns, the atom and
\* bond lines they declare follow, and the terminator ends the text.
Shaped(lines) ==
    /\ Len(lines) >= 2
    /\ IntOk(CountFields(lines[1])[1]) /\ IntOk(CountFields(lines[1])[2])
    /\ LET n == IntVal(CountFields(lines[1])[1])
           b == IntVal(CountFields(lines[1])[2])
       IN  /\ n >= 0 /\ b >= 0 /\ Len(lines) = n + b + 2
           /\ lines[Len(lines)] = TerminatorLine
           /\ \A i \in 2..(n + 1) : IsAtomLine(lines[i])
           /\ \A i \in (n + 2)..(n + b + 1) : IsBondLine(lines[i])

DeclaredAtoms(lines) == IntVal(CountFields(lines[1])[1])
DeclaredBonds(lines) == IntVal(CountFields(lines[1])[2])
AtomLineAt(lines, i) == lines[1 + i]
BondLineAt(lines, k) == lines[1 + DeclaredAtoms(lines) + k]
CodeOfAtomLine(line) == IntVal(ChargeField(line))
CodeOfBondLine(line) == IntVal(BondFields(line)[3])

\* A shaped text all of whose codes are of the enumerations.
WellFormed(lines) ==
    /\ Shaped(lines)
    /\ \A i \in 1..DeclaredAtoms(lines) :
          CodeOfAtomLine(AtomLineAt(lines, i)) \in EnumChargeCodes
    /\ \A k \in 1..DeclaredBonds(lines) :
          CodeOfBondLine(BondLineAt(lines, k)) \in EnumBondCodes

\* Two shaped texts agree field for field.
SameFields(x, y) ==
    /\ Len(x) = Len(y)
    /\ CountFields(x[1]) = CountFields(y[1])
    /\ \A i \in 1..DeclaredAtoms(y) :
          ChargeField(AtomLineAt(x, i)) = ChargeField(AtomLineAt(y, i))
    /\ \A k \in 1..DeclaredBonds(y) :
          BondFields(BondLineAt(x, k)) = BondFields(BondLineAt(y, k))
    /\ x[Len(x)] = y[Len(y)]

\* C1: a well-formed text whose codes are of the enumerations is read, the
\* structure is written, and the lines written equal the lines read field
\* for field.
C1_TextRoundTrip ==
    (pc \in {"parsed", "read_failed", "rewritten", "rewrite_failed"}
        /\ WellFormed(src_lines))
    => /\ pc \in {"parsed", "rewritten"}
       /\ pc = "rewritten" => SameFields(out_lines, src_lines)

\* What the codec does keep of a well-formed text: every field but the
\* bond-type code, which comes back as the code stored last for its type.
C1_TextRoundTripOfCode ==
    (pc \in {"parsed", "read_failed", "rewritten", "rewrite_failed"}
        /\ WellFormed(src_lines))
    => /\ pc \in {"parsed", "rewritten"}
       /\ pc = "rewritten" =>
            /\ Len(out_lines) = Len(src_lines)
            /\ CountFields(out_lines[1]) = CountFields(src_lines[1])
            /\ \A i \in 1..DeclaredAtoms(src_lines) :
                  ChargeField(AtomLineAt(out_lines, i))
                      = ChargeField(AtomLineAt(src_lines, i))
            /\ \A k \in 1..DeclaredBonds(src_lines) :
                  LET o == BondFields(BondLineAt(out_lines, k))
                      i == BondFields(BondLineAt(src_lines, k))
                  IN  /\ o[1] = i[1] /\ o[2] = i[2]
                      /\ IntVal(o[3]) = CASE IntVal(i[3]) = 1 -> 6
                                          [] IntVal(i[3]) = 2 -> 7
                                          [] OTHER -> IntVal(i[3])
            /\ out_lines[Len(out_lines)] = TerminatorLine

AfterRead == pc \in {"parsed", "read_failed", "rewritten", "rewrite_failed"}
AfterWrite == pc \in {"written", "write_failed", "reread", "reread_failed"}
AfterReread == pc \in {"reread", "reread_failed"}

\* C2: a single-frame structure with a bond list is written, the lines are
\* read, and the structure read has every charge of -3..3 and every bond of
\* type single, double, triple or any of the structure written, the bonds
\* in the same order with the same atom indices.
C2_StructureRoundTrip ==
    (AfterReread /\ ~src_atoms.stack /\ src_atoms.has_bonds)
    => /\ pc = "reread"
       /\ atoms.n = src_atoms.n
       /\ src_atoms.has_charge =>
            \A i \in 1..src_atoms.n :
                src_atoms.charge[i] \in EnumCharges
                    => atoms.charge[i] = src_atoms.charge[i]
       /\ Len(atoms.bonds) = Len(src_atoms.bonds)
       /\ \A k \in 1..Len(src_atoms.bonds) :
            src_atoms.bonds[k][3] \in EnumBondTypes
                => atoms.bonds[k] = src_atoms.bonds[k]

\* The same of the structures of at most 99 bonds.
C2_StructureRoundTripBelow100 ==
    Len(src_atoms.bonds) <= 99 => C2_StructureRoundTrip

\* The counts line of a text is two integers.
CountsParse(lines) ==
    /\ lines # <<>>
    /\ Len(Split(lines[1])) >= 2
    /\ IntOk(Split(lines[1])[1]) /\ IntOk(Split(lines[1])[2])

\* C3: reading fails and returns no structure when the counts line is not
\* two integers and when fewer record lines follow it than it declares; a
\* structure returned never has more atoms or bonds than lines were read.
C3_MalformedRejected ==
    AfterRead =>
        /\ ~CountsParse(src_lines) => pc = "read_failed"
        /\ (CountsParse(src_lines)
              /\ RecordLines(src_lines)
                   < IntVal(Split(src_lines[1])[1]) + IntVal(Split(src_lines[1])[2]))
           => pc = "read_failed"
        /\ pc = "read_failed" => atoms = EmptyStructure
        /\ pc # "read_failed"
           => atoms.n + Len(atoms.bonds) <= RecordLines(src_lines)

\* The same of the texts that end with the terminator, as the reader's
\* documentation asks of its input.
C3_TerminatedRejected ==
    (AfterRead /\ src_lines # <<>> /\ src_lines[Len(src_lines)] = TerminatorLine)
    => /\ ~CountsParse(src_lines) => pc = "read_failed"
       /\ (CountsParse(src_lines)
             /\ RecordLines(src_lines)
                  < IntVal(Split(src_lines[1])[1]) + IntVal(Split(src_lines[1])[2]))
          => pc = "read_failed"
       /\ pc = "read_failed" => atoms = EmptyStructure
       /\ pc # "read_failed"
          => atoms.n + Len(atoms.bonds) <= RecordLines(src_lines)

\* The advisories a shaped text is due: one per atom line whose charge code
\* and one per bond line whose bond-type code is not of the enumerations.
AdvisoriesDue(lines) ==
    Cardinality({i \in 1..DeclaredAtoms(lines) :
                    CodeOfAtomLine(AtomLineAt(lines, i)) \notin EnumChargeCodes})
    + Cardinality({k \in 1..DeclaredBonds(lines) :
                    CodeOfBondLine(BondLineAt(lines, k)) \notin EnumBondCodes})

\* C4: one read reports exactly one advisory per atom line whose charge code
\* and per bond line whose bond-type code is not of the enumerations; a line
\* whose codes are (bond-type code 8 among them) reports none.
C4_AdvisoriesExact ==
    (pc = "parsed" /\ Shaped(src_lines))
    => Len(warnings) = AdvisoriesDue(src_lines)

\* What the reader does report: an advisory more for every bond line of
\* bond-type code 8.
C4_AdvisoriesOfCode ==
    (pc = "parsed" /\ Shaped(src_lines))
    => Len(warnings)
         = AdvisoriesDue(src_lines)
           + Cardinality({k \in 1..DeclaredBonds(src_lines) :
                             CodeOfBondLine(BondLineAt(src_lines, k)) = 8})

\* The charge the specification's enumeration gives a code.
ChargeOfCode(code) ==
    CASE code = 0 -> 0 [] code = 1 -> 3 [] code = 2 -> 2 [] code = 3 -> 1
      [] code = 5 -> -1 [] code = 6 -> -2 [] code = 7 -> -3 [] OTHER -> 0

\* The bond type the specification's enumeration gives a code.
BondTypeOfCode(code) ==
    CASE code \in {1, 6} -> "SINGLE" [] code \in {2, 7} -> "DOUBLE"
      [] code = 3 -> "TRIPLE" [] OTHER -> "ANY"

\* C5: no charge code and no bond-type code makes the read fail; every atom
\* has the charge and every bond the type the enumeration gives its code, 0
\* and any for a code that is not of it, on every line of the text.
C5_FallbackNeverAborts ==
    (AfterRead /\ Shaped(src_lines))
    => /\ pc # "read_failed"
       /\ atoms.n = DeclaredAtoms(src_lines)
       /\ Len(atoms.bonds) = DeclaredBonds(src_lines)
       /\ \A i \in 1..DeclaredAtoms(src_lines) :
            atoms.charge[i] = ChargeOfCode(CodeOfAtomLine(AtomLineAt(src_lines, i)))
       /\ \A k \in 1..DeclaredBonds(src_lines) :
            atoms.bonds[k][3]
                = BondTypeOfCode(CodeOfBondLine(BondLineAt(src_lines, k)))

\* A code that is not of the enumeration was replaced and a line after it
\* was read with its own code.
C5_Witness ==
    /\ pc = "parsed" /\ Shaped(src_lines)
    /\ \E i \in 1..DeclaredAtoms(src_lines) :
          /\ CodeOfAtomLine(AtomLineAt(src_lines, i)) = 4
          /\ atoms.charge[i] = 0
          /\ \E j \in (i + 1)..DeclaredAtoms(src_lines) : atoms.charge[j] = -3

\* C6: writing a stack fails with TypeError and writing an array without a
\* bond list fails with BadStructureError, both without a line; an array
\* with an empty bond list is written as a counts line that declares 0
\* bonds, its atom lines, no bond line and the terminator.
C6_WriteErrors ==
    AfterWrite =>
        /\ src_atoms.stack
           => pc = "write_failed" /\ error = "TypeError" /\ out_lines = <<>>
        /\ (~src_atoms.stack /\ ~src_atoms.has_bonds)
           => pc = "write_failed" /\ error = "BadStructureError" /\ out_lines = <<>>
        /\ (~src_atoms.stack /\ src_atoms.has_bonds /\ src_atoms.bonds = <<>>)
           => /\ pc # "write_failed"
              /\ Len(out_lines) = src_atoms.n + 2
              /\ IntOk(Slice(out_lines[1], 3, 6))
              /\ IntVal(Slice(out_lines[1], 3, 6)) = 0
              /\ \A i \in 1..src_atoms.n : IsAtomLine(out_lines[1 + i])
              /\ out_lines[Len(out_lines)] = TerminatorLine

\* An array of atoms with an empty bond list has been written.
C6_Witness ==
    /\ pc = "written" /\ src_atoms.has_bonds /\ src_atoms.bonds = <<>>
    /\ src_atoms.n = MaxAtoms /\ Len(out_lines) = MaxAtoms + 2

\* C7: the writer raises nothing for a charge or bond type that is not of
\* the enumerations and writes code 0 for it; a charge or bond type of the
\* enumerations is written as a code the reader's enumeration maps to it;
\* without a charge annotation every atom line carries charge code 0.
C7_ReverseMapping ==
    (AfterWrite /\ ~src_atoms.stack /\ src_atoms.has_bonds)
    => /\ pc # "write_failed"
       /\ Len(out_lines) = src_atoms.n + Len(src_atoms.bonds) + 2
       /\ \A i \in 1..src_atoms.n :
            LET code == IntVal(ChargeField(out_lines[1 + i]))
            IN  IF ~src_atoms.has_charge THEN code = 0
                ELSE IF src_atoms.charge[i] \in EnumCharges
                THEN code \in EnumChargeCodes
                        /\ ChargeOfCode(code) = src_atoms.charge[i]
                ELSE code = 0
       /\ \A k \in 1..Len(src_atoms.bonds) :
            LET code == IntVal(BondFields(out_lines[1 + src_atoms.n + k])[3])
            IN  IF src_atoms.bonds[k][3] \in EnumBondTypes
                THEN code \in EnumBondCodes
                        /\ BondTypeOfCode(code) = src_atoms.bonds[k][3]
                ELSE code = 0

\* Charges and bond types of and beyond the enumerations have been written.
C7_Witness ==
    /\ pc = "written" /\ src_atoms.has_charge
    /\ \E i, j \in 1..src_atoms.n :
          /\ src_atoms.charge[i] = 4 /\ src_atoms.charge[j] = -2
          /\ IntVal(ChargeField(out_lines[1 + i])) = 0
          /\ IntVal(ChargeField(out_lines[1 + j])) = 6

\* C10: the counts line written for n atoms and b bonds is read by
\* _get_counts as (n, b), also when b has three digits.
C10_CountsReadBack ==
    (pc = "written")
    => LET counts == GetCounts(out_lines[1])
       IN  /\ counts.err = "none"
           /\ counts.n_atoms = src_atoms.n
           /\ counts.n_bonds = Len(src_atoms.bonds)

\* The same of the structures of at most 99 bonds: the two count fields are
\* then apart.
C10_CountsReadBackBelow100 ==
    (pc = "written" /\ Len(src_atoms.bonds) <= 99)
    => LET counts == GetCounts(out_lines[1])
       IN  /\ counts.err = "none"
           /\ counts.n_atoms = src_atoms.n
           /\ counts.n_bonds = Len(src_atoms.bonds)

(***************************************************************************)
(* chains.py                                                               *)
(***************************************************************************)
MaxLen == 4

ChainIds == {"A", "B"}

\* The chain_id annotations of the arrays: the empty array among them.
ChainArrays == SeqsUpTo(ChainIds, MaxLen)

\* np.where(mask)[0] + 1 for the mask chain_ids[:-1] != chain_ids[1:], whose
\* 0-based position p compares elements p and p + 1: the positions from p on.
RECURSIVE ChainChanges(_, _)
ChainChanges(chain_ids, p) ==
    IF p > Len(chain_ids) - 2 THEN <<>>
    ELSE (IF chain_ids[p + 1] # chain_ids[p + 2] THEN <<p + 1>> ELSE <<>>)
            \o ChainChanges(chain_ids, p + 1)

\* get_chain_starts: np.append([0], chain_changes), 0-based indices.
GetChainStarts(chain_ids) == <<0>> \o ChainChanges(chain_ids, 0)

\* get_chain_count
GetChainCount(chain_ids) == Len(GetChainStarts(chain_ids))

InitChains ==
    /\ pc = "chains"
    /\ array \in ChainArrays
    /\ starts = <<>>
    /\ iter_i = 0
    /\ yielded = <<>>
    /\ chain_count = 0
    /\ IdleCtab
    /\ IdleAlign

\* count = get_chain_count(array)
CountChains ==
    /\ pc = "chains"
    /\ chain_count' = GetChainCount(array)
    /\ pc' = "counted"
    /\ UNCHANGED <<array, starts, iter_i, yielded, ctabVars, alignVars>>

\* chain_iter(array), up to its loop: the exclusive stop is appended to the
\* chain starts.
ChainIterEnter ==
    /\ pc = "counted"
    /\ starts' = GetChainStarts(array) \o <<Len(array)>>
    /\ iter_i' = 0
    /\ pc' = "iterating"
    /\ UNCHANGED <<array, yielded, chain_count, ctabVars, alignVars>>

\* One pass of the loop: yield array[..., starts[i] : starts[i+1]].
ChainIterYield ==
    /\ pc = "iterating"
    /\ iter_i < Len(starts) - 1
    /\ yielded' = Append(yielded,
                         [first |-> starts[iter_i + 1],
                          chain_ids |-> Slice(array, starts[iter_i + 1],
                                              starts[iter_i + 2])])
    /\ iter_i' = iter_i + 1
    /\ UNCHANGED <<pc, array, starts, chain_count, ctabVars, alignVars>>

\* The loop is over: the generator is exhausted.
ChainIterReturn ==
    /\ pc = "iterating"
    /\ iter_i >= Len(starts) - 1
    /\ pc' = "iterated"
    /\ UNCHANGED <<array, starts, iter_i, yielded, chain_count, ctabVars, alignVars>>

NextChains == CountChains \/ ChainIterEnter \/ ChainIterYield \/ ChainIterReturn

SpecChains == InitChains /\ [][NextChains]_vars

\* What C8 says of an exhausted chain_iter.
ChainsPartition ==
    /\ Len(yielded) = chain_count
    /\ \A k \in 1..Len(yielded) :
          /\ yielded[k].chain_ids # <<>>
          /\ \E s \in 1..Len(GetChainStarts(array)) :
                GetChainStarts(array)[s] = yielded[k].first
          /\ yielded[k].chain_ids
                = Slice(array, yielded[k].first,
                        yielded[k].first + Len(yielded[k].chain_ids))
          /\ \A a, b \in 1..Len(yielded[k].chain_ids) :
                yielded[k].chain_ids[a] = yielded[k].chain_ids[b]
    /\ \A k \in 1..(Len(yielded) - 1) :
          yielded[k].chain_ids[1] # yielded[k + 1].chain_ids[1]
    /\ Concat([k \in 1..Len(yielded) |-> yielded[k].chain_ids]) = array
    /\ LET cs == GetChainStarts(array)
       IN  /\ \A s \in 1..Len(cs) : cs[s] >= 0 /\ cs[s] < Len(array)
           /\ \A s \in 1..(Len(cs) - 1) : cs[s] < cs[s + 1]
           /\ cs # <<>> => cs[1] = 0

\* C8: chain_iter yields get_chain_count(array) subarrays, each a non-empty
\* run of one chain ID that starts at an index of get_chain_starts, runs
\* that follow each other differ in chain ID, together they are the array,
\* and the chain starts are valid indices that increase from 0; of every
\* array, the empty one too.
C8_ChainsPartition == pc = "iterated" => ChainsPartition

\* The same of the arrays that hold an atom.
C8_ChainsPartitionNonEmpty == (pc = "iterated" /\ array # <<>>) => ChainsPartition

(***************************************************************************)
(* The alignment engine.  genome_search.py calls align_optimal; the engine *)
(* itself is modelled from its specification: a call q holds the two       *)
(* sequences of symbol codes, the substitution matrix, the gap penalty     *)
(* (gap_open = gap_extend when it is linear) and the mode.                 *)
(***************************************************************************)
MaxSeqLen == 2

\* Symbol codes of the alphabet, and one code beyond it.
AlphabetSize == 2
Codes == 0..(AlphabetSize - 1)

SetMax(S) == CHOOSE x \in S : \A y \in S : y <= x

\* Less than every score a call of these bounds can reach: the value of a
\* cell no path ends in.
NegInf == -1000

\* a + b of a cell value a: the cell no path ends in stays so.
Plus(a, b) == IF a <= NegInf THEN NegInf ELSE a + b

Call(seq1, seq2, matrix, affine, gap_open, gap_extend, mode) ==
    [seq1 |-> seq1, seq2 |-> seq2, matrix |-> matrix, affine |-> affine,
     gap_open |-> gap_open, gap_extend |-> gap_extend, mode |-> mode]

\* matrix[seq1[i-1], seq2[j-1]] of cell (i, j)
Subst(q, i, j) == q.matrix[q.seq1[i] + 1][q.seq2[j] + 1]

\* The cost of a step along seq2 (a gap in seq1) in row i: in semi-global
\* mode the gaps before and after seq1 are free.
FreeRow(q, i) == q.mode = "semi-global" /\ i \in {0, Len(q.seq1)}
RowGap(q, i, cost) == IF FreeRow(q, i) THEN 0 ELSE cost

\* Linear gap penalty: one matrix.  In local mode the cells are floored at
\* zero and the first row and column are zero.
RECURSIVE Cell(_, _, _)
Cell(q, i, j) ==
    IF i = 0 /\ j = 0 THEN 0
    ELSE IF q.mode = "local" /\ (i = 0 \/ j = 0) THEN 0
    ELSE LET moves ==
                (IF i > 0 /\ j > 0
                 THEN {Cell(q, i - 1, j - 1) + Subst(q, i, j)} ELSE {})
                \cup (IF i > 0 THEN {Cell(q, i - 1, j) + q.gap_open} ELSE {})
                \cup (IF j > 0
                      THEN {Cell(q, i, j - 1) + RowGap(q, i, q.gap_open)} ELSE {})
                \cup (IF q.mode = "local" THEN {0} ELSE {})
         IN  SetMax(moves)

\* Affine gap penalty: three matrices, "M" of the paths that end in a
\* substitution, "X" in a gap in seq2, "Y" in a gap in seq1.
RECURSIVE Cell3(_, _, _, _)
Best3(q, i, j) == SetMax({Cell3(q, "M", i, j), Cell3(q, "X", i, j), Cell3(q, "Y", i, j)})

Cell3(q, st, i, j) ==
    CASE st = "M" ->
            IF i = 0 /\ j = 0 THEN 0
            ELSE IF i = 0 \/ j = 0 THEN (IF q.mode = "local" THEN 0 ELSE NegInf)
            ELSE LET v == Plus(Best3(q, i - 1, j - 1), Subst(q, i, j))
                 IN  IF q.mode = "local" THEN Max(0, v) ELSE v
      [] st = "X" ->
            IF i = 0 THEN NegInf
            ELSE SetMax({Plus(Cell3(q, "M", i - 1, j), q.gap_open),
                         Plus(Cell3(q, "Y", i - 1, j), q.gap_open),
                         Plus(Cell3(q, "X", i - 1, j), q.gap_extend)})
      [] st = "Y" ->
            IF j = 0 THEN NegInf
            ELSE SetMax({Plus(Cell3(q, "M", i, j - 1), RowGap(q, i, q.gap_open)),
                         Plus(Cell3(q, "X", i, j - 1), RowGap(q, i, q.gap_open)),
                         Plus(Cell3(q, "Y", i, j - 1), RowGap(q, i, q.gap_extend))})

\* The optimal score: the terminal cell, or in local mode the maximum cell.
CellScore(q, i, j) == IF q.affine THEN Best3(q, i, j) ELSE Cell(q, i, j)

LocalCell(q, i, j) == IF q.affine THEN Cell3(q, "M", i, j) ELSE Cell(q, i, j)

\* OptimalScore, had local mode read the terminal cell as the other modes do.
OptimalScoreTerminal(q) ==
    IF q.mode = "local" THEN LocalCell(q, Len(q.seq1), Len(q.seq2))
    ELSE CellScore(q, Len(q.seq1), Len(q.seq2))

OptimalScore(q) ==
    IF q.mode = "local"
    THEN SetMax({LocalCell(q, i, j) : i \in 0..Len(q.seq1), j \in 0..Len(q.seq2)})
    ELSE CellScore(q, Len(q.seq1), Len(q.seq2))

\* Traceback, linear: the traces of the optimal paths that end in cell
\* (i, j).  A trace row pairs 0-based indices, -1 marking the gap.
RECURSIVE Traces(_, _, _)
Traces(q, i, j) ==
    IF (q.mode = "local" /\ Cell(q, i, j) = 0) \/ (i = 0 /\ j = 0) THEN {<<>>}
    ELSE (IF i > 0 /\ j > 0 /\ Cell(q, i, j) = Cell(q, i - 1, j - 1) + Subst(q, i, j)
          THEN {Append(t, <<i - 1, j - 1>>) : t \in Traces(q, i - 1, j - 1)} ELSE {})
         \cup
         (IF i > 0 /\ Cell(q, i, j) = Cell(q, i - 1, j) + q.gap_open
          THEN {Append(t, <<i - 1, -1>>) : t \in Traces(q, i - 1, j)} ELSE {})
         \cup
         (IF j > 0 /\ Cell(q, i, j) = Cell(q, i, j - 1) + RowGap(q, i, q.gap_open)
          THEN {Append(t, <<-1, j - 1>>) : t \in Traces(q, i, j - 1)} ELSE {})

\* Traceback, affine: the traces of the optimal paths that end in cell
\* (i, j) of matrix st.
RECURSIVE Traces3(_, _, _, _)
Traces3(q, st, i, j) ==
    IF Cell3(q, st, i, j) <= NegInf THEN {}
    ELSE IF (q.mode = "local" /\ st = "M" /\ Cell3(q, st, i, j) = 0)
            \/ (i = 0 /\ j = 0) THEN {<<>>}
    ELSE
    LET from(pi, pj, row, open, extend) ==
            UNION {IF Cell3(q, st, i, j)
                        = Cell3(q, p, pi, pj)
                              + (IF st = "M" THEN Subst(q, i, j)
                                 ELSE IF p = st THEN extend ELSE open)
                      /\ Cell3(q, p, pi, pj) > NegInf
                   THEN {Append(t, row) : t \in Traces3(q, p, pi, pj)}
                   ELSE {} : p \in {"M", "X", "Y"}}
    IN  CASE st = "M" -> from(i - 1, j - 1, <<i - 1, j - 1>>, 0, 0)
          [] st = "X" -> from(i - 1, j, <<i - 1, -1>>, q.gap_open, q.gap_extend)
          [] st = "Y" -> from(i, j - 1, <<-1, j - 1>>,
                              RowGap(q, i, q.gap_open), RowGap(q, i, q.gap_extend))

\* The traces of all optimal paths: from the terminal cell, or in local
\* mode from every cell that holds the maximum.
OptimalTraces(q) ==
    LET m == Len(q.seq1)
        n == Len(q.seq2)
        score == OptimalScore(q)
    IN  IF q.mode = "local"
        THEN UNION {IF LocalCell(q, i, j) = score
                    THEN (IF q.affine THEN Traces3(q, "M", i, j) ELSE Traces(q, i, j))
                    ELSE {} : <<i, j>> \in (0..m) \X (0..n)}
        ELSE IF q.affine
        THEN UNION {IF Cell3(q, st, m, n) = score THEN Traces3(q, st, m, n) ELSE {} :
                        st \in {"M", "X", "Y"}}
        ELSE Traces(q, m, n)

\* align(seq1, seq2, matrix, gapPenalty, mode): [err, alignments].
Align(q) ==
    IF \E k \in 1..Len(q.seq1) : q.seq1[k] \notin Codes
        THEN [err |-> "InvalidAlphabetError", alignments |-> {}]
    ELSE IF \E k \in 1..Len(q.seq2) : q.seq2[k] \notin Codes
        THEN [err |-> "InvalidAlphabetError", alignments |-> {}]
    ELSE IF q.seq1 = <<>> /\ q.seq2 = <<>>
        THEN [err |-> "EmptyInputError", alignments |-> {}]
    ELSE [err |-> "none",
          alignments |-> {[score |-> OptimalScore(q), trace |-> t] :
                             t \in OptimalTraces(q)}]

\* The calls: every pair of sequences, three substitution matrices (one of
\* them not symmetric), two linear and two affine gap penalties <<affine,
\* open, extend>>, the three modes;
\* and calls with a code that is not of the alphabet.
Matrices ==
    { << <<1, -1>>, <<-1, 1>> >>,
      << <<2, -3>>, <<-3, 1>> >>,
      << <<1, 0>>, <<-2, 3>> >> }

GapPenalties ==
    { <<FALSE, 0, 0>>, <<FALSE, -2, -2>>, <<TRUE, -3, -1>>, <<TRUE, -1, -2>> }

Modes == {"global", "local", "semi-global"}

AlignCalls ==
    {Call(a, b, mat, g[1], g[2], g[3], mode) :
        a \in SeqsUpTo(Codes, MaxSeqLen), b \in SeqsUpTo(Codes, MaxSeqLen),
        mat \in Matrices, g \in GapPenalties, mode \in Modes}
    \cup {Call(a, <<0>>, << <<1, -1>>, <<-1, 1>> >>, FALSE, -1, -1, mode) :
            a \in {<<AlphabetSize>>, <<0, AlphabetSize>>}, mode \in Modes}
    \cup {Call(<<0>>, b, << <<1, -1>>, <<-1, 1>> >>, FALSE, -1, -1, mode) :
            b \in {<<AlphabetSize>>, <<0, AlphabetSize>>}, mode \in Modes}

InitAlign ==
    /\ pc = "align"
    /\ aln_in \in AlignCalls
    /\ aln_out = [err |-> "none", alignments |-> {}]
    /\ IdleCtab
    /\ IdleChains

\* alignments = align(seq1, seq2, matrix, gapPenalty, mode)
AlignCall ==
    /\ pc = "align"
    /\ aln_out' = Align(aln_in)
    /\ pc' = IF Align(aln_in).err = "none" THEN "aligned" ELSE "align_failed"
    /\ UNCHANGED <<aln_in, ctabVars, chainVars>>

NextAlign == AlignCall

SpecAlign == InitAlign /\ [][NextAlign]_vars

(***************************************************************************)
(* Properties of the alignment engine                                      *)
(***************************************************************************)
\* The traces of all paths from cell (i0, j0) to cell (i, j).
RECURSIVE PathTraces(_, _, _, _)
PathTraces(i0, j0, i, j) ==
    IF i < i0 \/ j < j0 THEN {}
    ELSE IF i = i0 /\ j = j0 THEN {<<>>}
    ELSE {Append(t, <<i - 1, j - 1>>) : t \in PathTraces(i0, j0, i - 1, j - 1)}
         \cup {Append(t, <<i - 1, -1>>) : t \in PathTraces(i0, j0, i - 1, j)}
         \cup {Append(t, <<-1, j - 1>>) : t \in PathTraces(i0, j0, i, j - 1)}

\* The valid alignments of a call: of the whole sequences, or in local
\* mode of any two stretches of them.
ValidTraces(q) ==
    LET m == Len(q.seq1)
        n == Len(q.seq2)
    IN  IF q.mode = "local"
        THEN UNION {PathTraces(x[1], x[2], x[3], x[4]) :
                        x \in (0..m) \X (0..n) \X (0..m) \X (0..n)}
        ELSE PathTraces(0, 0, m, n)

RECURSIVE SumTo(_, _)
SumTo(f, k) == IF k = 0 THEN 0 ELSE f[k] + SumTo(f, k - 1)

\* The score of a trace by definition: the substitution score of every
\* aligned pair, and for every gap of length L the penalty times L, or
\* open + extend * (L - 1); in semi-global mode nothing for the gaps in
\* seq1 before its first and after its last symbol.
TraceScore(q, t) ==
    LET used(k) == Cardinality({r \in 1..k : t[r][1] # -1})
        kind(k) == IF t[k][1] = -1 THEN "Y" ELSE IF t[k][2] = -1 THEN "X" ELSE "M"
        free(k) == /\ q.mode = "semi-global" /\ kind(k) = "Y"
                   /\ used(k) \in {0, Len(q.seq1)}
        row(k) == IF kind(k) = "M" THEN q.matrix[q.seq1[t[k][1] + 1] + 1]
                                                [q.seq2[t[k][2] + 1] + 1]
                  ELSE IF free(k) THEN 0
                  ELSE IF k > 1 /\ kind(k - 1) = kind(k) THEN q.gap_extend
                  ELSE q.gap_open
    IN  SumTo([k \in 1..Len(t) |-> row(k)], Len(t))

ValidCall(q) ==
    /\ \A k \in 1..Len(q.seq1) : q.seq1[k] \in Codes
    /\ \A k \in 1..Len(q.seq2) : q.seq2[k] \in Codes
    /\ ~(q.seq1 = <<>> /\ q.seq2 = <<>>)

\* C9: a call with two sequences not both empty returns a non-empty set of
\* alignments, each a valid alignment of the call whose score is the score
\* it is returned with, all of one score, which is the maximum over the
\* valid alignments of the mode and in local mode at least 0.
C9_OptimalAlignments ==
    (pc \in {"aligned", "align_failed"} /\ ValidCall(aln_in))
    => /\ pc = "aligned"
       /\ aln_out.alignments # {}
       /\ \A a, b \in aln_out.alignments : a.score = b.score
       /\ \A a \in aln_out.alignments :
            /\ a.trace \in ValidTraces(aln_in)
            /\ TraceScore(aln_in, a.trace) = a.score
            /\ a.score = SetMax({TraceScore(aln_in, t) : t \in ValidTraces(aln_in)})
            /\ aln_in.mode = "local" => a.score >= 0

\* An affine call has returned two optimal alignments, with a gap.
C9_Witness ==
    /\ pc = "aligned" /\ aln_in.affine
    /\ Cardinality(aln_out.alignments) >= 2
    /\ \E a \in aln_out.alignments : \E k \in 1..Len(a.trace) : a.trace[k][2] = -1

====
